---- MODULE Spec2Model ----
(***************************************************************************)
(* Model of mdbook-quiz's preprocessor (src/src/processor.rs).             *)
(*                                                                         *)
(* A string is a sequence of one-character strings, so that the regular    *)
(* expression, the path functions and the attribute escaping work on       *)
(* characters as the code does.  A character without a TLA+ escape is      *)
(* written by its code point, "U+0008".  A markdown text is held by the    *)
(* event sequence that stands for it: a source text by the events          *)
(* pulldown-cmark's Parser yields for it (processor.rs:73), a text written *)
(* by cmark by the events it was serialised from (processor.rs:101); the   *)
(* write into a String cannot fail.  run parses source texts only, and     *)
(* what Parser would yield for a text cmark wrote is not modelled.  The    *)
(* book is held as the sequence of its items in book order, each with its  *)
(* depth: 0 for an item of book.sections, d + 1 for an item of the         *)
(* sub_items of a chapter of depth d.  Book::for_each_mut (processor.rs:   *)
(* 124) hands the sub_items of a chapter to the closure before the chapter.*)
(***************************************************************************)
EXTENDS Integers, Sequences, FiniteSets, TLC

VARIABLES
  text,        \* matcher specification: the string given to QUIZ_REGEX
  captures,    \* matcher specification: what QUIZ_REGEX.captures returned
  config_toml, \* the [preprocessor.quiz] table of book.toml
  config,      \* QuizConfig built by run
  fs,          \* the file system: absolute path -> file
  book,        \* Book: the items in the order for_each_mut visits them
  orig,        \* the book as it was handed to run
  idx,         \* position of for_each_mut in its visiting order
  status,      \* "start" | "running" | "returned" | "panicked"
  reads,       \* every std::fs::read_to_string call so far: [unit, path]
  result       \* what the last process_chapter call returned

vars == <<text, captures, config_toml, config, fs, book, orig, idx, status,
          reads, result>>

(***************************************************************************)
(* Bounds of the model.                                                    *)
(***************************************************************************)
MaxChunks == 4
MaxEvents == 2
MaxItems == 3

(***************************************************************************)
(* Strings.                                                                *)
(***************************************************************************)
RECURSIVE Concat(_)
Concat(ss) == IF ss = <<>> THEN <<>> ELSE Head(ss) \o Concat(Tail(ss))

StartsWith(s, p) == Len(s) >= Len(p) /\ SubSeq(s, 1, Len(p)) = p

Drop(s, n) == SubSeq(s, n + 1, Len(s))

\* the literal part of QUIZ_REGEX before the group: \{\{#quiz followed by a space
RegexPrefix == <<"{", "{", "#", "q", "u", "i", "z", " ">>

\* the literal part of QUIZ_REGEX after the group: \}\}
RegexSuffix == <<"}", "}">>

(***************************************************************************)
(* QUIZ_REGEX = ^\{\{#quiz ([^}]+)\}\}$ run as an automaton over the       *)
(* characters of the haystack.  States 0..7: that many characters of the   *)
(* prefix are read; InGroupFirst: the prefix is read, the group is empty;  *)
(* InGroup: the group holds at least one character; Closing: the first }   *)
(* is read; Accept: both are read.  $ matches at the end of the haystack   *)
(* only (no multi-line flag), so any character after Accept kills the run. *)
(***************************************************************************)
Dead == -1
InGroupFirst == 8
InGroup == 9
Closing == 10
Accept == 11

\* the pattern without its $: anything may follow the closing braces
RegexStepNoEndAnchor(q, c) ==
  IF q = Dead THEN Dead
  ELSE IF q < InGroupFirst THEN (IF c = RegexPrefix[q + 1] THEN q + 1 ELSE Dead)
  ELSE IF q = InGroupFirst THEN (IF c # "}" THEN InGroup ELSE Dead)
  ELSE IF q = InGroup THEN (IF c # "}" THEN InGroup ELSE Closing)
  ELSE IF q = Closing THEN (IF c = "}" THEN Accept ELSE Dead)
  ELSE Accept

RegexStep(q, c) ==
  IF q = Dead THEN Dead
  ELSE IF q < InGroupFirst THEN (IF c = RegexPrefix[q + 1] THEN q + 1 ELSE Dead)
  ELSE IF q = InGroupFirst THEN (IF c # "}" THEN InGroup ELSE Dead)
  ELSE IF q = InGroup THEN (IF c # "}" THEN InGroup ELSE Closing)
  ELSE IF q = Closing THEN (IF c = "}" THEN Accept ELSE Dead)
  ELSE Dead

RECURSIVE RegexRun(_, _, _)
RegexRun(s, i, q) ==
  IF i > Len(s) THEN q
  ELSE CHOOSE r \in { RegexRun(s, i + 1, q2) : q2 \in {RegexStep(q, s[i])} } : TRUE

NoCaptures == [some |-> FALSE, group1 |-> <<>>]

\* QUIZ_REGEX.captures(text): None, or Some with group 1
QUIZ_REGEX_captures(s) ==
  IF RegexRun(s, 1, 0) = Accept
  THEN [some |-> TRUE,
        group1 |-> SubSeq(s, Len(RegexPrefix) + 1, Len(s) - Len(RegexSuffix))]
  ELSE NoCaptures

(***************************************************************************)
(* Option values.                                                          *)
(***************************************************************************)
None == [some |-> FALSE, val |-> <<>>]
Some(v) == [some |-> TRUE, val |-> v]
NoneBool == [some |-> FALSE, val |-> FALSE]

(***************************************************************************)
(* std::path on Unix.                                                      *)
(***************************************************************************)
RECURSIVE SplitFrom(_, _, _, _)
SplitFrom(p, i, cur, acc) ==
  IF i > Len(p) THEN Append(acc, cur)
  ELSE IF p[i] = "/" THEN SplitFrom(p, i + 1, <<>>, Append(acc, cur))
  ELSE SplitFrom(p, i + 1, Append(cur, p[i]), acc)

IsNamed(seg) == seg # <<>> /\ seg # <<".">>

\* Path::components without the root: empty segments and "." are skipped
Components(p) == SelectSeq(SplitFrom(p, 1, <<>>, <<>>), IsNamed)

\* Path::file_name: the last component, unless it is ".."
file_name(p) ==
  LET c == Components(p) IN
  IF c = <<>> THEN None
  ELSE IF c[Len(c)] = <<".", ".">> THEN None
  ELSE Some(c[Len(c)])

RECURSIVE LastIndexOf(_, _, _)
LastIndexOf(s, c, i) ==
  IF i = 0 THEN 0 ELSE IF s[i] = c THEN i ELSE LastIndexOf(s, c, i - 1)

RECURSIVE FirstIndexOf(_, _, _)
FirstIndexOf(s, c, i) ==
  IF i > Len(s) THEN 0 ELSE IF s[i] = c THEN i ELSE FirstIndexOf(s, c, i + 1)

\* Path::file_stem: the file name up to its last ".", the whole name when it
\* has no "." or only a leading one
file_stem(p) ==
  LET n == file_name(p) IN
  IF ~n.some THEN None
  ELSE LET d == LastIndexOf(n.val, ".", Len(n.val)) IN
       IF d <= 1 THEN n ELSE Some(SubSeq(n.val, 1, d - 1))

\* Path::join: an absolute rel replaces base, otherwise a separator is added
\* unless base is empty or ends with one
join(base, rel) ==
  IF StartsWith(rel, <<"/">>) THEN rel
  ELSE IF base = <<>> THEN rel
  ELSE IF base[Len(base)] = "/" THEN base \o rel
  ELSE base \o <<"/">> \o rel

\* Components::trim_right: trailing separators and trailing "." components
\* are dropped, the root and a leading "." are kept
RECURSIVE trim_right(_)
trim_right(p) ==
  IF Len(p) <= 1 THEN p
  ELSE IF p[Len(p)] = "/" THEN trim_right(SubSeq(p, 1, Len(p) - 1))
  ELSE IF p[Len(p)] = "." /\ p[Len(p) - 1] = "/"
       THEN trim_right(SubSeq(p, 1, Len(p) - 1))
  ELSE p

\* Path::parent: the path without its last component; None for the root and
\* for the empty path
parent(p) ==
  CHOOSE r \in
    { IF t = <<>> \/ t = <<"/">> THEN None
      ELSE Some(trim_right(SubSeq(t, 1, LastIndexOf(t, "/", Len(t))))) :
      t \in {trim_right(p)} } : TRUE

(***************************************************************************)
(* html_escape::encode_double_quoted_attribute: & and " are escaped.       *)
(***************************************************************************)
\* only & is escaped
RECURSIVE encode_without_quot(_)
encode_without_quot(v) ==
  IF v = <<>> THEN <<>>
  ELSE (IF Head(v) = "&" THEN <<"&", "a", "m", "p", ";">> ELSE <<Head(v)>>)
       \o encode_without_quot(Tail(v))

RECURSIVE encode_double_quoted_attribute(_)
encode_double_quoted_attribute(v) ==
  IF v = <<>> THEN <<>>
  ELSE (IF Head(v) = "&" THEN <<"&", "a", "m", "p", ";">>
        ELSE IF Head(v) = "\"" THEN <<"&", "q", "u", "o", "t", ";">>
        ELSE <<Head(v)>>)
       \o encode_double_quoted_attribute(Tail(v))

(***************************************************************************)
(* toml values of the configuration table and of a definition file.  A     *)
(* Float is held by the text serde_json prints for it (b: it is finite), a *)
(* Datetime by its text; an Array holds values, a Table [key, value]       *)
(* entries in key order (toml keeps a table in a BTreeMap).                *)
(***************************************************************************)
Absent == [type |-> "Absent", s |-> <<>>, b |-> FALSE, n |-> 0, items |-> <<>>]
TomlString(s) == [type |-> "String", s |-> s, b |-> FALSE, n |-> 0, items |-> <<>>]
TomlBoolean(b) == [type |-> "Boolean", s |-> <<>>, b |-> b, n |-> 0, items |-> <<>>]
TomlInteger(n) == [type |-> "Integer", s |-> <<>>, b |-> FALSE, n |-> n, items |-> <<>>]
TomlFloat(s, finite) ==
  [type |-> "Float", s |-> s, b |-> finite, n |-> 0, items |-> <<>>]
TomlDatetime(s) == [type |-> "Datetime", s |-> s, b |-> FALSE, n |-> 0, items |-> <<>>]
TomlArray(items) == [type |-> "Array", s |-> <<>>, b |-> FALSE, n |-> 0, items |-> items]
TomlTable(entries) ==
  [type |-> "Table", s |-> <<>>, b |-> FALSE, n |-> 0, items |-> entries]

Entry(k, v) == [key |-> k, value |-> v]

(***************************************************************************)
(* serde_json::to_string of a toml::Value.                                 *)
(***************************************************************************)
\* the control characters serde_json writes as \u00XX
ControlHex ==
  ("U+0000" :> <<"0", "0">>) @@
  ("U+0001" :> <<"0", "1">>) @@
  ("U+0002" :> <<"0", "2">>) @@
  ("U+0003" :> <<"0", "3">>) @@
  ("U+0004" :> <<"0", "4">>) @@
  ("U+0005" :> <<"0", "5">>) @@
  ("U+0006" :> <<"0", "6">>) @@
  ("U+0007" :> <<"0", "7">>) @@
  ("U+000B" :> <<"0", "b">>) @@
  ("U+000E" :> <<"0", "e">>) @@
  ("U+000F" :> <<"0", "f">>) @@
  ("U+0010" :> <<"1", "0">>) @@
  ("U+0011" :> <<"1", "1">>) @@
  ("U+0012" :> <<"1", "2">>) @@
  ("U+0013" :> <<"1", "3">>) @@
  ("U+0014" :> <<"1", "4">>) @@
  ("U+0015" :> <<"1", "5">>) @@
  ("U+0016" :> <<"1", "6">>) @@
  ("U+0017" :> <<"1", "7">>) @@
  ("U+0018" :> <<"1", "8">>) @@
  ("U+0019" :> <<"1", "9">>) @@
  ("U+001A" :> <<"1", "a">>) @@
  ("U+001B" :> <<"1", "b">>) @@
  ("U+001C" :> <<"1", "c">>) @@
  ("U+001D" :> <<"1", "d">>) @@
  ("U+001E" :> <<"1", "e">>) @@
  ("U+001F" :> <<"1", "f">>)

\* serde_json's escape of one character of a string
json_char(c) ==
  IF c = "\"" THEN <<"\\", "\"">>
  ELSE IF c = "\\" THEN <<"\\", "\\">>
  ELSE IF c = "\n" THEN <<"\\", "n">>
  ELSE IF c = "\t" THEN <<"\\", "t">>
  ELSE IF c = "\r" THEN <<"\\", "r">>
  ELSE IF c = "\f" THEN <<"\\", "f">>
  ELSE IF c = "U+0008" THEN <<"\\", "b">>
  ELSE IF c \in DOMAIN ControlHex THEN <<"\\", "u", "0", "0">> \o ControlHex[c]
  ELSE <<c>>

RECURSIVE json_string_body(_)
json_string_body(s) ==
  IF s = <<>> THEN <<>> ELSE json_char(Head(s)) \o json_string_body(Tail(s))

json_string(s) == <<"\"">> \o json_string_body(s) \o <<"\"">>

RECURSIVE json_digits(_)
json_digits(n) ==
  IF n < 10 THEN <<(<<"0", "1", "2", "3", "4", "5", "6", "7", "8", "9">>)[n + 1]>>
  ELSE json_digits(n \div 10)
       \o <<(<<"0", "1", "2", "3", "4", "5", "6", "7", "8", "9">>)[(n % 10) + 1]>>

json_integer(n) == IF n < 0 THEN <<"-">> \o json_digits(0 - n) ELSE json_digits(n)

RECURSIVE json_value(_)
RECURSIVE json_items(_, _)
RECURSIVE json_entries(_, _)
RECURSIVE to_json_string(_)

\* a non-finite Float is written null; a Datetime is written as the struct
\* toml serialises it as
json_value(v) ==
  IF v.type = "String" THEN json_string(v.s)
  ELSE IF v.type = "Integer" THEN json_integer(v.n)
  ELSE IF v.type = "Float" THEN (IF v.b THEN v.s ELSE <<"n", "u", "l", "l">>)
  ELSE IF v.type = "Boolean"
       THEN (IF v.b THEN <<"t", "r", "u", "e">> ELSE <<"f", "a", "l", "s", "e">>)
  ELSE IF v.type = "Datetime"
       THEN <<"{">> \o json_string(<<"$", "_", "_", "t", "o", "m", "l", "_", "p", "r", "i", "v", "a", "t", "e", "_", "d", "a", "t", "e", "t", "i", "m", "e">>)
            \o <<":">> \o json_string(v.s) \o <<"}">>
  ELSE IF v.type = "Array" THEN <<"[">> \o json_items(v.items, 1) \o <<"]">>
  ELSE to_json_string(v.items)

json_items(items, i) ==
  IF i > Len(items) THEN <<>>
  ELSE (IF i > 1 THEN <<",">> ELSE <<>>)
       \o json_value(items[i]) \o json_items(items, i + 1)

json_entries(table, i) ==
  IF i > Len(table) THEN <<>>
  ELSE (IF i > 1 THEN <<",">> ELSE <<>>)
       \o json_string(table[i].key) \o <<":">> \o json_value(table[i].value)
       \o json_entries(table, i + 1)

to_json_string(table) == <<"{">> \o json_entries(table, 1) \o <<"}">>

(***************************************************************************)
(* The file system: fs maps an absolute path without ".", ".." and empty   *)
(* components to what is held there.  A "dir" is a directory, and so is    *)
(* every ancestor of a path held; a "malformed" file does not parse as     *)
(* toml; a "toml" file parses to its value, the entries of its root table; *)
(* "missing" is no file, and the outcome of a read that fails.             *)
(***************************************************************************)
MissingFile == [state |-> "missing", value |-> <<>>]
MalformedFile == [state |-> "malformed", value |-> <<>>]
TomlFile(v) == [state |-> "toml", value |-> v]
Directory == [state |-> "dir", value |-> <<>>]

IsDirectory(p) ==
  \/ p = <<"/">>
  \/ p \in DOMAIN fs /\ fs[p].state = "dir"
  \/ \E f \in DOMAIN fs : fs[f].state # "missing" /\ StartsWith(f, p \o <<"/">>)

\* the directory ".." names in directory p: the root is its own parent
DotDot(p) == IF parent(p).some THEN parent(p).val ELSE p

\* path resolution of the operating system, without symbolic links: every
\* component is looked up in a directory, ".." also; None when one is not
RECURSIVE Walk(_, _, _)
Walk(cur, components, i) ==
  CHOOSE r \in
    { IF i > Len(components) THEN Some(c)
      ELSE IF ~IsDirectory(c) THEN None
      ELSE IF components[i] = <<".", ".">> THEN Walk(DotDot(c), components, i + 1)
      ELSE IF c = <<"/">> THEN Walk(c \o components[i], components, i + 1)
      ELSE Walk(c \o <<"/">> \o components[i], components, i + 1) :
      c \in {cur} } : TRUE

\* what an absolute path names
Resolved(path) == Walk(<<"/">>, Components(path), 1)

\* std::fs::read_to_string: the open fails when a component does not resolve
\* and when a path with a trailing "/" or "/." names a file; the read fails on
\* a directory
read_to_string(path) ==
  CHOOSE r \in
    { IF ~t.some THEN MissingFile
      ELSE IF trim_right(path) # path THEN MissingFile
      ELSE IF t.val \notin DOMAIN fs THEN MissingFile
      ELSE IF fs[t.val].state = "dir" THEN MissingFile
      ELSE fs[t.val] :
      t \in {Resolved(path)} } : TRUE

(***************************************************************************)
(* Errors.  The ? of process_quiz converts std::io::Error, toml::de::Error *)
(* and serde_json::Error into anyhow::Error with no context attached: the  *)
(* error value carries its kind and the library's own message, and names   *)
(* no path and no directive argument.                                      *)
(***************************************************************************)
NoError == [kind |-> "None", names |-> {}]
IoError == [kind |-> "IoError", names |-> {}]
FormatError == [kind |-> "FormatError", names |-> {}]

(***************************************************************************)
(* process_quiz (processor.rs:29-65).                                      *)
(***************************************************************************)
HtmlOpen ==
  <<"<", "d", "i", "v", " ", "c", "l", "a", "s", "s", "=", "\"", "q", "u", "i",
    "z", "-", "p", "l", "a", "c", "e", "h", "o", "l", "d", "e", "r", "\"">>
HtmlClose == <<">", "<", "/", "d", "i", "v", ">">>
K_name == <<"q", "u", "i", "z", "-", "n", "a", "m", "e">>
K_questions ==
  <<"q", "u", "i", "z", "-", "q", "u", "e", "s", "t", "i", "o", "n", "s">>
K_log_endpoint ==
  <<"q", "u", "i", "z", "-", "l", "o", "g", "-", "e", "n", "d", "p", "o", "i",
    "n", "t">>
K_fullscreen ==
  <<"q", "u", "i", "z", "-", "f", "u", "l", "l", "s", "c", "r", "e", "e", "n">>

\* the add_data closure: html.push_str(format!(" data-{}=\"{}\" ", k, escaped v))
add_data(html, k, v) ==
  html \o <<" ", "d", "a", "t", "a", "-">> \o k \o <<"=", "\"">>
       \o encode_double_quoted_attribute(v) \o <<"\"", " ">>

\* the fullscreen attribute follows the option's value, not its presence
build_html_fullscreen_if_true(cfg, quiz_name, content_json) ==
  LET h1 == add_data(HtmlOpen, K_name, quiz_name)
      h2 == add_data(h1, K_questions, content_json)
      h3 == IF cfg.log_endpoint.some
            THEN add_data(h2, K_log_endpoint, cfg.log_endpoint.val) ELSE h2
      h4 == IF cfg.fullscreen.some /\ cfg.fullscreen.val
            THEN add_data(h3, K_fullscreen, <<>>) ELSE h3
  IN h4 \o HtmlClose

\* processor.rs:44-62
build_html(cfg, quiz_name, content_json) ==
  LET h1 == add_data(HtmlOpen, K_name, quiz_name)
      h2 == add_data(h1, K_questions, content_json)
      h3 == IF cfg.log_endpoint.some
            THEN add_data(h2, K_log_endpoint, cfg.log_endpoint.val) ELSE h2
      h4 == IF cfg.fullscreen.some THEN add_data(h3, K_fullscreen, <<>>) ELSE h3
  IN h4 \o HtmlClose

QuizPanic == [tag |-> "Panic", html |-> <<>>, err |-> NoError, read |-> None]
QuizErr(e, path) == [tag |-> "Err", html |-> <<>>, err |-> e, read |-> Some(path)]
QuizOk(html, path) == [tag |-> "Ok", html |-> html, err |-> NoError, read |-> Some(path)]

\* the result of process_quiz and the path it read, if it read one
process_quiz(cfg, chapter_dir, quiz_path) ==
  CHOOSE r \in
    { IF ~quiz_name.some THEN QuizPanic
      ELSE IF file.state = "missing" THEN QuizErr(IoError, quiz_path_abs)
      ELSE IF file.state = "malformed" THEN QuizErr(FormatError, quiz_path_abs)
      ELSE QuizOk(build_html(cfg, quiz_name.val, to_json_string(file.value)),
                  quiz_path_abs) :
      quiz_path_abs \in {join(chapter_dir, quiz_path)},
      quiz_name \in {file_stem(quiz_path)},
      file \in {read_to_string(join(chapter_dir, quiz_path))} } : TRUE

(***************************************************************************)
(* process_chapter (processor.rs:67-105).                                  *)
(***************************************************************************)
\* ctx.root and ctx.config.book.src
CtxRoot == <<"/", "r">>
BookSrc == <<"s">>

HtmlEvent(s) == [kind |-> "Html", s |-> s]
Passed(event) == [tag |-> "Ok", event |-> event, err |-> NoError, read |-> None]

\* the match arm taken for every event that carries a string, not only Text
new_event_of_any_kind(cfg, chapter_dir, event) ==
  CHOOSE n \in
    { IF c.some
      THEN CHOOSE m \in
             { [tag |-> q.tag, event |-> HtmlEvent(q.html), err |-> q.err,
                read |-> q.read] :
               q \in {process_quiz(cfg, chapter_dir, c.group1)} } : TRUE
      ELSE Passed(event) :
      c \in {QUIZ_REGEX_captures(event.s)} } : TRUE

\* the placeholder is built and the original event pushed all the same
new_event_keeping_text(cfg, chapter_dir, event) ==
  IF event.kind = "Text"
  THEN CHOOSE n \in
         { IF c.some
           THEN CHOOSE m \in
                  { [tag |-> q.tag, event |-> event, err |-> q.err,
                     read |-> q.read] :
                    q \in {process_quiz(cfg, chapter_dir, c.group1)} } : TRUE
           ELSE Passed(event) :
           c \in {QUIZ_REGEX_captures(event.s)} } : TRUE
  ELSE Passed(event)

\* the match of processor.rs:83-96 on one event
new_event(cfg, chapter_dir, event) ==
  IF event.kind = "Text"
  THEN CHOOSE n \in
         { IF c.some
           THEN CHOOSE m \in
                  { [tag |-> q.tag, event |-> HtmlEvent(q.html), err |-> q.err,
                     read |-> q.read] :
                    q \in {process_quiz(cfg, chapter_dir, c.group1)} } : TRUE
           ELSE Passed(event) :
           c \in {QUIZ_REGEX_captures(event.s)} } : TRUE
  ELSE Passed(event)

\* the first error is kept and returned after the loop instead of at once
RECURSIVE for_events_to_the_end(_, _, _, _, _, _)
for_events_to_the_end(cfg, chapter_dir, events, i, new_events, rd) ==
  IF i > Len(events)
  THEN [tag |-> "Ok", new_events |-> new_events, err |-> NoError, reads |-> rd]
  ELSE CHOOSE r \in
         { IF n.tag = "Ok"
           THEN for_events_to_the_end(cfg, chapter_dir, events, i + 1,
                  Append(new_events, n.event),
                  IF n.read.some THEN Append(rd, n.read.val) ELSE rd)
           ELSE CHOOSE r2 \in
                  { [tag |-> n.tag, new_events |-> new_events, err |-> n.err,
                     reads |-> rest.reads] :
                    rest \in {for_events_to_the_end(cfg, chapter_dir, events, i + 1,
                                new_events,
                                IF n.read.some THEN Append(rd, n.read.val) ELSE rd)} } :
                  TRUE :
           n \in {new_event(cfg, chapter_dir, events[i])} } : TRUE

\* the loop of processor.rs:81-98 from event i on: ? returns at the first error
RECURSIVE for_events(_, _, _, _, _, _)
for_events(cfg, chapter_dir, events, i, new_events, rd) ==
  IF i > Len(events)
  THEN [tag |-> "Ok", new_events |-> new_events, err |-> NoError, reads |-> rd]
  ELSE CHOOSE r \in
         { IF n.tag = "Ok"
           THEN for_events(cfg, chapter_dir, events, i + 1,
                           Append(new_events, n.event),
                           IF n.read.some THEN Append(rd, n.read.val) ELSE rd)
           ELSE [tag |-> n.tag, new_events |-> new_events, err |-> n.err,
                 reads |-> IF n.read.some THEN Append(rd, n.read.val) ELSE rd] :
           n \in {new_event(cfg, chapter_dir, events[i])} } : TRUE

\* processor.rs:75-79; chapter.path is None for a draft chapter
chapter_dir_of(chapter) ==
  parent(join(join(CtxRoot, BookSrc), chapter.path.val))

\* a markdown text: the source of a chapter, or what cmark wrote
Source(events) == [from |-> "source", events |-> events]

\* Parser::new(&chapter.content), processor.rs:73
Parser_new(content) == content.events

\* cmark(new_events.into_iter(), &mut new_content), processor.rs:100-101
cmark(events) == [from |-> "cmark", events |-> events]

ChapterPanic ==
  [tag |-> "Panic", new_events |-> <<>>, err |-> NoError, reads |-> <<>>]

\* the outcome of process_chapter up to line 98: Ok with the events handed to
\* cmark, Err, or a panic (unwrap of chapter.path, of parent or of file_stem)
process_chapter(cfg, chapter) ==
  IF ~chapter.path.some THEN ChapterPanic
  ELSE CHOOSE r \in
         { IF ~dir.some THEN ChapterPanic
           ELSE for_events(cfg, dir.val, Parser_new(chapter.content), 1, <<>>, <<>>) :
           dir \in {chapter_dir_of(chapter)} } : TRUE

NoResult == [tag |-> "None", new_events |-> <<>>, err |-> NoError, reads |-> <<>>]

RECURSIVE Tagged(_, _)
Tagged(paths, unit) ==
  IF paths = <<>> THEN <<>>
  ELSE <<[unit |-> unit, path |-> Head(paths)]>> \o Tagged(Tail(paths), unit)

(***************************************************************************)
(* Preprocessor::run (processor.rs:113-131).                               *)
(***************************************************************************)
NoConfig == [log_endpoint |-> None, fullscreen |-> NoneBool]

ConfigValid ==
  /\ config_toml.present
  /\ config_toml.log_endpoint.type \in {"Absent", "String"}
  /\ config_toml.fullscreen.type \in {"Absent", "Boolean"}

\* processor.rs:114-122 with every unwrap succeeding
RunConfig ==
  /\ status = "start"
  /\ ConfigValid
  /\ config' =
       [log_endpoint |->
          IF config_toml.log_endpoint.type = "Absent" THEN None
          ELSE Some(config_toml.log_endpoint.s),
        fullscreen |->
          IF config_toml.fullscreen.type = "Absent" THEN NoneBool
          ELSE [some |-> TRUE, val |-> config_toml.fullscreen.b]]
  /\ status' = "running"
  /\ UNCHANGED <<text, captures, config_toml, fs, book, orig, idx, reads, result>>

\* processor.rs:114-121: get_preprocessor, as_str or as_bool is None
RunConfigPanic ==
  /\ status = "start"
  /\ ~ConfigValid
  /\ status' = "panicked"
  /\ UNCHANGED <<text, captures, config_toml, config, fs, book, orig, idx, reads,
                 result>>

\* the last item of the sub_items of item i, at any depth: i when it has none
RECURSIVE last_sub_item(_, _, _)
last_sub_item(items, i, j) ==
  IF j < Len(items) /\ items[j + 1].depth > items[i].depth
  THEN last_sub_item(items, i, j + 1)
  ELSE j

\* mdbook's for_each_mut over items i..j, which are siblings with their
\* sub_items: for each the closure is called on its sub_items, then on it
RECURSIVE for_each_mut_from(_, _, _)
for_each_mut_from(items, i, j) ==
  IF i > j THEN <<>>
  ELSE CHOOSE r \in
         { for_each_mut_from(items, i + 1, e) \o <<i>>
           \o for_each_mut_from(items, e + 1, j) :
           e \in {last_sub_item(items, i, i)} } : TRUE

\* Book::for_each_mut: the items in the order the closure is called on them
for_each_mut(items) == for_each_mut_from(items, 1, Len(items))

\* the item the closure is called on
Item == for_each_mut(book)[idx]

\* processor.rs:125: the item is no chapter and the closure does nothing
RunSkipItem ==
  /\ status = "running"
  /\ idx <= Len(book)
  /\ book[Item].kind # "Chapter"
  /\ idx' = idx + 1
  /\ UNCHANGED <<text, captures, config_toml, config, fs, book, orig, status,
                 reads, result>>

\* processor.rs:126: process_chapter returns Ok and has stored what cmark
\* wrote as the chapter's content (processor.rs:100-102)
RunChapterOk ==
  /\ status = "running"
  /\ idx <= Len(book)
  /\ book[Item].kind = "Chapter"
  /\ \E r \in {process_chapter(config, book[Item])} :
     /\ r.tag = "Ok"
     /\ book' = [book EXCEPT ![Item].content = cmark(r.new_events)]
     /\ reads' = reads \o Tagged(r.reads, Item)
     /\ result' = r
  /\ idx' = idx + 1
  /\ UNCHANGED <<text, captures, config_toml, config, fs, orig, status>>

\* the content is stored although process_chapter failed
RunChapterErrStoring ==
  /\ status = "running"
  /\ idx <= Len(book)
  /\ book[Item].kind = "Chapter"
  /\ \E r \in {process_chapter(config, book[Item])} :
     /\ r.tag = "Err"
     /\ book' = [book EXCEPT ![Item].content = cmark(r.new_events)]
     /\ reads' = reads \o Tagged(r.reads, Item)
     /\ result' = r
  /\ status' = "panicked"
  /\ UNCHANGED <<text, captures, config_toml, config, fs, orig, idx>>

\* the error is dropped and for_each_mut goes on with the next item
RunChapterErrSkipping ==
  /\ status = "running"
  /\ idx <= Len(book)
  /\ book[Item].kind = "Chapter"
  /\ \E r \in {process_chapter(config, book[Item])} :
     /\ r.tag = "Err"
     /\ reads' = reads \o Tagged(r.reads, Item)
     /\ result' = r
  /\ idx' = idx + 1
  /\ UNCHANGED <<text, captures, config_toml, config, fs, book, orig, status>>

\* processor.rs:126: process_chapter returns Err before line 102 and unwrap panics
RunChapterErr ==
  /\ status = "running"
  /\ idx <= Len(book)
  /\ book[Item].kind = "Chapter"
  /\ \E r \in {process_chapter(config, book[Item])} :
     /\ r.tag = "Err"
     /\ reads' = reads \o Tagged(r.reads, Item)
     /\ result' = r
  /\ status' = "panicked"
  /\ UNCHANGED <<text, captures, config_toml, config, fs, book, orig, idx>>

\* processor.rs:78 or 38: an unwrap inside process_chapter panics
RunChapterPanic ==
  /\ status = "running"
  /\ idx <= Len(book)
  /\ book[Item].kind = "Chapter"
  /\ \E r \in {process_chapter(config, book[Item])} :
     /\ r.tag = "Panic"
     /\ reads' = reads \o Tagged(r.reads, Item)
     /\ result' = r
  /\ status' = "panicked"
  /\ UNCHANGED <<text, captures, config_toml, config, fs, book, orig, idx>>

\* processor.rs:130: every item is visited and run returns Ok(book)
RunReturn ==
  /\ status = "running"
  /\ idx > Len(book)
  /\ status' = "returned"
  /\ UNCHANGED <<text, captures, config_toml, config, fs, book, orig, idx, reads,
                 result>>

Next ==
  \/ RunConfig
  \/ RunConfigPanic
  \/ RunSkipItem
  \/ RunChapterOk
  \/ RunChapterErr
  \/ RunChapterPanic
  \/ RunReturn

(***************************************************************************)
(* Inputs.                                                                 *)
(***************************************************************************)
Arg_a == <<"a", ".", "t">>
Arg_quoted == <<"\"", "a", ".", "t", "\"">>
Arg_dotdot == <<".", ".">>
Arg_up == <<".", ".", "/", "s", "/", "a", ".", "t">>
Arg_slash == <<"a", ".", "t", "/">>

Directive(arg) == RegexPrefix \o arg \o RegexSuffix

TextEvent(s) == [kind |-> "Text", s |-> s]

Events ==
  { TextEvent(Directive(Arg_a)),
    TextEvent(Directive(Arg_quoted)),
    TextEvent(Directive(Arg_dotdot)),
    TextEvent(Directive(Arg_up)),
    TextEvent(Directive(Arg_slash)),
    TextEvent(Directive(Arg_a) \o <<"\n">>),
    [kind |-> "Start", s |-> <<>>],
    [kind |-> "Code", s |-> Directive(Arg_a)] }

SeqsUpTo(S, n) == UNION { [1..k -> S] : k \in 0..n }

ChapterPaths ==
  { None, Some(<<"c", ".", "m", "d">>), Some(<<".", "/", "c", ".", "m", "d">>),
    Some(<<"d", "/", "c", ".", "m", "d">>) }

\* the items of book.sections
Chapter(path, events) ==
  [kind |-> "Chapter", path |-> path, content |-> Source(events), depth |-> 0]
Separator ==
  [kind |-> "Separator", path |-> None, content |-> Source(<<>>), depth |-> 0]
PartTitle ==
  [kind |-> "PartTitle", path |-> None, content |-> Source(<<>>), depth |-> 0]

File_a == <<"/", "r", "/", "s", "/", "a", ".", "t">>
File_quoted == <<"/", "r", "/", "s", "/", "\"", "a", ".", "t", "\"">>
File_d_a == <<"/", "r", "/", "s", "/", "d", "/", "a", ".", "t">>
\* the directories the chapters of the model were loaded from
Dir_s == <<"/", "r", "/", "s">>
Dir_d == <<"/", "r", "/", "s", "/", "d">>

\* n = "x\"&\t"  ok = true  q = [{ a = 3 }, 1.5]
Value1 ==
  << Entry(<<"n">>, TomlString(<<"x", "\"", "&", "\t">>)),
     Entry(<<"o", "k">>, TomlBoolean(TRUE)),
     Entry(<<"q">>,
           TomlArray(<< TomlTable(<<Entry(<<"a">>, TomlInteger(3))>>),
                        TomlFloat(<<"1", ".", "5">>, TRUE) >>)) >>
Value2 == <<>>

Endpoint == <<"h", "\"", "&">>

FileSystems ==
  { [p \in {File_a, File_quoted, File_d_a, Dir_s, Dir_d} |->
       IF p = File_a THEN a ELSE IF p = File_quoted THEN q
       ELSE IF p = File_d_a THEN d ELSE Directory] :
    a \in {MissingFile, MalformedFile, TomlFile(Value1)},
    q \in {MissingFile, TomlFile(Value2)},
    d \in {MissingFile, TomlFile(Value1)} }

ConfigTomls ==
  { [present |-> TRUE, log_endpoint |-> l, fullscreen |-> f] :
      l \in {Absent, TomlString(Endpoint)},
      f \in {Absent, TomlBoolean(TRUE), TomlBoolean(FALSE)} }
  \cup { [present |-> FALSE, log_endpoint |-> Absent, fullscreen |-> Absent],
         [present |-> TRUE, log_endpoint |-> TomlInteger(3), fullscreen |-> Absent],
         [present |-> TRUE, log_endpoint |-> Absent, fullscreen |-> TomlInteger(3)] }

InitRunState ==
  /\ text = <<>>
  /\ captures = NoCaptures
  /\ config = NoConfig
  /\ orig = book
  /\ idx = 1
  /\ status = "start"
  /\ reads = <<>>
  /\ result = NoResult

\* one document unit with every content of up to MaxEvents events
Init ==
  /\ config_toml \in ConfigTomls
  /\ fs \in FileSystems
  /\ book \in { <<Chapter(p, c)>> : p \in ChapterPaths, c \in SeqsUpTo(Events, MaxEvents) }
              \cup { <<Separator>>, <<PartTitle>> }
  /\ InitRunState

Spec == Init /\ [][Next]_vars

\* several document units and other items, nested, each unit with one of a
\* few contents
RunContents ==
  { <<TextEvent(Directive(Arg_a))>>,
    <<TextEvent(Directive(Arg_quoted))>>,
    <<TextEvent(<<"h", "i">>)>> }

RunItems ==
  { Chapter(Some(<<"c", ".", "m", "d">>), c) : c \in RunContents }
  \cup { Chapter(None, <<TextEvent(<<"h", "i">>)>>), Separator }

\* an item as one of the sub_items of a chapter of depth d - 1
SubItem(item, d) == [item EXCEPT !.depth = d]

\* only a chapter has sub_items
WellNested(items) ==
  \A i \in 1..Len(items) :
    IF i = 1 THEN items[i].depth = 0
    ELSE \/ items[i].depth <= items[i - 1].depth
         \/ /\ items[i].depth = items[i - 1].depth + 1
            /\ items[i - 1].kind = "Chapter"

\* the books of up to MaxItems items, nested in every way
RunBooks ==
  { b \in SeqsUpTo({ SubItem(x, d) : x \in RunItems, d \in 0..(MaxItems - 1) },
                   MaxItems) : WellNested(b) }

RunFileSystems ==
  { [p \in {File_a, File_quoted, Dir_s} |->
       IF p = File_a THEN a ELSE IF p = File_quoted THEN TomlFile(Value2)
       ELSE Directory] :
    a \in {MissingFile, TomlFile(Value1)} }

RunConfigTomls ==
  { [present |-> TRUE, log_endpoint |-> TomlString(Endpoint),
     fullscreen |-> TomlBoolean(FALSE)],
    [present |-> TRUE, log_endpoint |-> Absent, fullscreen |-> TomlInteger(3)] }

InitRun ==
  /\ config_toml \in RunConfigTomls
  /\ fs \in RunFileSystems
  /\ book \in RunBooks
  /\ InitRunState

SpecRun == InitRun /\ [][Next]_vars

(***************************************************************************)
(* The matcher on its own: QUIZ_REGEX.captures applied to one string.      *)
(***************************************************************************)
Chunks ==
  { RegexPrefix,
    <<"{", "{", "#", "q", "u", "i", "z">>,
    Directive(Arg_a),
    <<"{">>, <<"}">>, <<"}", "}">>, <<"a">>, <<" ">>, <<"\n">> }

MatcherTexts == { Concat(cs) : cs \in SeqsUpTo(Chunks, MaxChunks) }

InitMatcher ==
  /\ text \in MatcherTexts
  /\ captures = NoCaptures
  /\ status = "match"
  /\ config_toml = [present |-> FALSE, log_endpoint |-> Absent, fullscreen |-> Absent]
  /\ config = NoConfig
  /\ fs = [p \in {File_a} |-> MissingFile]
  /\ book = <<>>
  /\ orig = <<>>
  /\ idx = 1
  /\ reads = <<>>
  /\ result = NoResult

\* processor.rs:86-87: captures returns Some
MatchSome ==
  /\ status = "match"
  /\ \E c \in {QUIZ_REGEX_captures(text)} :
       /\ c.some
       /\ captures' = c
  /\ status' = "matched"
  /\ UNCHANGED <<text, config_toml, config, fs, book, orig, idx, reads, result>>

\* processor.rs:86, 92: captures returns None
MatchNone ==
  /\ status = "match"
  /\ \E c \in {QUIZ_REGEX_captures(text)} :
       /\ ~c.some
       /\ captures' = c
  /\ status' = "matched"
  /\ UNCHANGED <<text, config_toml, config, fs, book, orig, idx, reads, result>>

NextMatcher == MatchSome \/ MatchNone

SpecMatcher == InitMatcher /\ [][NextMatcher]_vars

(***************************************************************************)
(* What the claims are stated with.                                        *)
(***************************************************************************)
\* s is {{#quiz a}} for a non-empty a without }
IsDirectiveText(s) ==
  /\ Len(s) >= 11
  /\ SubSeq(s, 1, 8) = <<"{", "{", "#", "q", "u", "i", "z", " ">>
  /\ SubSeq(s, Len(s) - 1, Len(s)) = <<"}", "}">>
  /\ \A i \in 9..(Len(s) - 2) : s[i] # "}"

ArgumentOf(s) == SubSeq(s, 9, Len(s) - 2)

IsDirective(event) == event.kind = "Text" /\ IsDirectiveText(event.s)

\* the arguments of the directive tokens of a content, in document order
RECURSIVE DirectiveArgs(_)
DirectiveArgs(events) ==
  IF events = <<>> THEN <<>>
  ELSE (IF IsDirective(Head(events)) THEN <<ArgumentOf(Head(events).s)>> ELSE <<>>)
       \o DirectiveArgs(Tail(events))

\* the directory of a unit of the model: /r/s/d for d/c.md, /r/s for c.md
\* and ./c.md
UnitDir(chapter) ==
  IF chapter.path.val = <<"d", "/", "c", ".", "m", "d">>
  THEN <<"/", "r", "/", "s", "/", "d">>
  ELSE <<"/", "r", "/", "s">>

RECURSIVE InDir(_, _)
InDir(dir, args) ==
  IF args = <<>> THEN <<>>
  ELSE <<dir \o <<"/">> \o Head(args)>> \o InDir(dir, Tail(args))

\* <unit directory>/<argument> for every directive of the unit, in document order
ExpectedPaths(chapter) == InDir(UnitDir(chapter), DirectiveArgs(chapter.content.events))

\* the paths read for unit u, in the order they were read
RECURSIVE PathsOf(_, _)
PathsOf(rds, u) ==
  IF rds = <<>> THEN <<>>
  ELSE (IF Head(rds).unit = u THEN <<Head(rds).path>> ELSE <<>>)
       \o PathsOf(Tail(rds), u)

\* unit u was rewritten: process_chapter returned Ok for it
\* the place of unit u in the order the closure is called in
Position(u) == CHOOSE k \in 1..Len(book) : for_each_mut(book)[k] = u

Rewritten(u) ==
  u \in 1..Len(book) /\ Position(u) < idx /\ book[u].kind = "Chapter"

\* the rewrite of the unit the closure was called on returned an error
Failed == status = "panicked" /\ result.tag = "Err"

\* the positions of unit u that held a directive token
Expanded(u) == { j \in 1..Len(orig[u].content.events) : IsDirective(orig[u].content.events[j]) }

\* the attributes of a placeholder as a reader of the markup sees them: after
\* the opening tag, a run of ' data-KEY="VALUE" ', each VALUE ending at the
\* first double quote, then the closing tag
BadAttr == [k |-> <<"?">>, v |-> <<>>]

RECURSIVE ReadAttrs(_)
ReadAttrs(rest) ==
  IF rest = HtmlClose THEN <<>>
  ELSE IF ~StartsWith(rest, <<" ", "d", "a", "t", "a", "-">>) THEN <<BadAttr>>
  ELSE CHOOSE r \in
         { IF eq = 0 \/ eq + 1 > Len(rest) THEN <<BadAttr>>
           ELSE IF rest[eq + 1] # "\"" THEN <<BadAttr>>
           ELSE CHOOSE r2 \in
                  { IF close = 0 \/ close + 1 > Len(rest) THEN <<BadAttr>>
                    ELSE IF rest[close + 1] # " " THEN <<BadAttr>>
                    ELSE <<[k |-> SubSeq(rest, 7, eq - 1),
                            v |-> SubSeq(rest, eq + 2, close - 1)]>>
                         \o ReadAttrs(Drop(rest, close + 1)) :
                    close \in {FirstIndexOf(rest, "\"", eq + 2)} } : TRUE :
           eq \in {FirstIndexOf(rest, "=", 1)} } : TRUE

AttrsOf(html) ==
  IF StartsWith(html, HtmlOpen) THEN ReadAttrs(Drop(html, Len(HtmlOpen)))
  ELSE <<BadAttr>>

RECURSIVE Keys(_)
Keys(attrs) == IF attrs = <<>> THEN <<>> ELSE <<Head(attrs).k>> \o Keys(Tail(attrs))

CountOf(s, c) == Cardinality({ i \in 1..Len(s) : s[i] = c })

LogConfigured == config_toml.log_endpoint.type = "String"
FullscreenSupplied == config_toml.fullscreen.type = "Boolean"

ExpectedKeys ==
  <<K_name, K_questions>>
  \o (IF LogConfigured THEN <<K_log_endpoint>> ELSE <<>>)
  \o (IF FullscreenSupplied THEN <<K_fullscreen>> ELSE <<>>)

(***************************************************************************)
(* C1: in a rewritten unit the output has as many tokens as the input;     *)
(* every token that is not a directive text token is the input token, and  *)
(* every directive text token has become one raw-markup (Html) token.      *)
(***************************************************************************)
C1_TokensPreserved ==
  \A u \in 1..Len(book) :
    Rewritten(u) =>
      /\ Len(book[u].content.events) = Len(orig[u].content.events)
      /\ \A j \in 1..Len(orig[u].content.events) :
           IF IsDirective(orig[u].content.events[j])
           THEN /\ book[u].content.events[j].kind = "Html"
                /\ book[u].content.events[j] # orig[u].content.events[j]
           ELSE book[u].content.events[j] = orig[u].content.events[j]

\* a unit with a directive followed by a code token holding a directive
C1_Witness ==
  /\ status = "returned"
  /\ Rewritten(1)
  /\ Len(orig[1].content.events) = 2
  /\ IsDirective(orig[1].content.events[1])
  /\ orig[1].content.events[2].kind = "Code"

(***************************************************************************)
(* C2: the matcher answers for every string, and answers a match with      *)
(* argument a exactly when the string is {{#quiz a}} with a non-empty and  *)
(* free of }: nothing before, nothing after.                               *)
(***************************************************************************)
C2_MatcherExact ==
  /\ status = "match" => ENABLED NextMatcher
  /\ status = "matched" =>
       /\ captures.some <=> IsDirectiveText(text)
       /\ captures.some =>
            /\ text = <<"{", "{", "#", "q", "u", "i", "z", " ">>
                      \o captures.group1 \o <<"}", "}">>
            /\ captures.group1 # <<>>
            /\ \A i \in 1..Len(captures.group1) : captures.group1[i] # "}"

\* a match whose argument holds a line break
C2_Witness ==
  /\ status = "matched"
  /\ captures.some
  /\ \E i \in 1..Len(captures.group1) : captures.group1[i] = "\n"

(***************************************************************************)
(* C3 as claimed: a directive written {{#quiz "a.t"}} gives the quiz name  *)
(* a and reads <unit directory>/a.t.                                       *)
(***************************************************************************)
C3_QuotedArgumentNamesStem ==
  \A u \in 1..Len(book) :
    Rewritten(u) =>
      \A j \in Expanded(u) :
        orig[u].content.events[j].s = Directive(<<"\"", "a", ".", "t", "\"">>) =>
          /\ AttrsOf(book[u].content.events[j].s)[1] = [k |-> K_name, v |-> <<"a">>]
          /\ \E k \in 1..Len(reads) :
               /\ reads[k].unit = u
               /\ reads[k].path = UnitDir(orig[u]) \o <<"/", "a", ".", "t">>

(***************************************************************************)
(* C4: every placeholder carries quiz-name and quiz-questions, then        *)
(* quiz-log-endpoint exactly when an endpoint is configured (with its      *)
(* value), then quiz-fullscreen with the empty value exactly when the      *)
(* fullscreen option was supplied, true or false; always in this order.    *)
(***************************************************************************)
C4_Attributes ==
  \A u \in 1..Len(book) :
    Rewritten(u) =>
      \A j \in Expanded(u) :
        /\ Keys(AttrsOf(book[u].content.events[j].s)) = ExpectedKeys
        /\ LogConfigured =>
             AttrsOf(book[u].content.events[j].s)[3].v =
               <<"h", "&", "q", "u", "o", "t", ";", "&", "a", "m", "p", ";">>
        /\ FullscreenSupplied =>
             AttrsOf(book[u].content.events[j].s)[Len(ExpectedKeys)].v = <<>>

\* an expansion under fullscreen = false and no endpoint
C4_Witness ==
  /\ status = "returned"
  /\ Rewritten(1)
  /\ Expanded(1) # {}
  /\ config_toml.fullscreen = TomlBoolean(FALSE)
  /\ ~LogConfigured

(***************************************************************************)
(* C5: in every placeholder the only double quotes are the delimiters of   *)
(* the class attribute and of each data attribute, so that no value ends   *)
(* its attribute early: read back, the markup has exactly the attributes   *)
(* that were written.                                                      *)
(***************************************************************************)
C5_NoUnescapedQuote ==
  \A u \in 1..Len(book) :
    Rewritten(u) =>
      \A j \in Expanded(u) :
        /\ Len(AttrsOf(book[u].content.events[j].s)) = Len(ExpectedKeys)
        /\ \A a \in 1..Len(AttrsOf(book[u].content.events[j].s)) :
             AttrsOf(book[u].content.events[j].s)[a] # BadAttr
        /\ CountOf(book[u].content.events[j].s, "\"") = 2 + 2 * Len(ExpectedKeys)

\* a quiz name, a definition and an endpoint that all hold a double quote
C5_Witness ==
  /\ status = "returned"
  /\ Rewritten(1)
  /\ LogConfigured
  /\ \E j \in Expanded(1) : orig[1].content.events[j].s = Directive(Arg_quoted)
  /\ \E j \in Expanded(1) : orig[1].content.events[j].s = Directive(Arg_a)

(***************************************************************************)
(* C6: when the rewrite of a unit fails, with an IoError or a FormatError, *)
(* the unit's content is what it was before the call, also when earlier    *)
(* directives of the unit were expanded; and a unit is rewritten only when *)
(* every definition it refers to loads and parses.                         *)
(***************************************************************************)
C6_NoPartialContent ==
  /\ Failed =>
       /\ result.err.kind \in {"IoError", "FormatError"}
       /\ book[Item] = orig[Item]
  /\ \A u \in 1..Len(book) :
       Rewritten(u) =>
         \A k \in 1..Len(ExpectedPaths(orig[u])) :
           read_to_string(ExpectedPaths(orig[u])[k]).state = "toml"

\* the second directive of a unit fails after the first was expanded
C6_Witness ==
  /\ Failed
  /\ Len(result.new_events) = 1
  /\ result.new_events[1].kind = "Html"
  /\ IsDirective(orig[Item].content.events[1])

(***************************************************************************)
(* C7 as claimed: the error of a failed load names the path that could not *)
(* be read.                                                                *)
(***************************************************************************)
C7_ErrorNamesPath ==
  (Failed /\ result.err.kind = "IoError") =>
    result.reads[Len(result.reads)] \in result.err.names

(***************************************************************************)
(* C8: the tokens a rewritten unit handed to cmark hold no directive       *)
(* token; the rewrite loop run on these tokens again succeeds, gives the   *)
(* same tokens and reads no file; the tokens of a unit without directive   *)
(* tokens are rewritten to themselves without reading a file.              *)
(***************************************************************************)
C8_Idempotent ==
  \A u \in 1..Len(book) :
    Rewritten(u) =>
      /\ \A j \in 1..Len(book[u].content.events) : ~IsDirective(book[u].content.events[j])
      /\ \E again \in {for_events(config, UnitDir(orig[u]),
                                  book[u].content.events, 1, <<>>, <<>>)} :
           /\ again.tag = "Ok"
           /\ again.new_events = book[u].content.events
           /\ again.reads = <<>>
      /\ Expanded(u) = {} =>
           /\ book[u].content.events = orig[u].content.events
           /\ PathsOf(reads, u) = <<>>

\* a unit with two directives, both expanded
C8_Witness ==
  /\ status = "returned"
  /\ Rewritten(1)
  /\ Cardinality(Expanded(1)) = 2
  /\ book[1].content.events # orig[1].content.events

(***************************************************************************)
(* C9: a rewritten unit has read one file per directive token, in document *)
(* order, and nothing else; a failed unit has read the files of its        *)
(* directives up to the one that failed, and none after it.                *)
(***************************************************************************)
C9_OneLoadPerDirective ==
  /\ \A u \in 1..Len(book) :
       Rewritten(u) => PathsOf(reads, u) = ExpectedPaths(orig[u])
  /\ Failed =>
       /\ PathsOf(reads, Item) # <<>>
       /\ Len(PathsOf(reads, Item)) <= Len(ExpectedPaths(orig[Item]))
       /\ PathsOf(reads, Item) =
            SubSeq(ExpectedPaths(orig[Item]), 1, Len(PathsOf(reads, Item)))
       /\ \A k \in 1..Len(PathsOf(reads, Item)) :
            (read_to_string(PathsOf(reads, Item)[k]).state = "toml")
              <=> (k < Len(PathsOf(reads, Item)))

\* the first of two directives fails
C9_Witness ==
  /\ Failed
  /\ Len(ExpectedPaths(orig[Item])) = 2
  /\ Len(PathsOf(reads, Item)) = 1

(***************************************************************************)
(* C10 as stated: the units are visited in book order, and when the        *)
(* rewrite of a unit fails no unit after it in the book is rewritten; no   *)
(* item that is no chapter is modified; run returns only when every        *)
(* chapter was rewritten.                                                  *)
(***************************************************************************)
C10_VisitedInBookOrder ==
  /\ \A k \in 2..Len(reads) : reads[k - 1].unit <= reads[k].unit
  /\ (status = "panicked" /\ result.tag \in {"Err", "Panic"}) =>
       \A u \in 1..Len(book) : u > Item => book[u] = orig[u]
  /\ \A u \in 1..Len(book) : book[u].kind # "Chapter" => book[u] = orig[u]
  /\ status = "returned" =>
       \A u \in 1..Len(book) : orig[u].kind = "Chapter" => book[u] # orig[u]

\* item v is among the sub_items of item u, at any depth
Descendant(u, v) ==
  u < v /\ \A k \in (u + 1)..v : orig[k].depth > orig[u].depth

(***************************************************************************)
(* C10 amended: run visits the items in book order except that the         *)
(* sub-items of a chapter are visited before the chapter; an item not yet  *)
(* visited and every item that is no chapter is as it was handed in, and   *)
(* no file was read for it; every chapter visited before the current one   *)
(* is rewritten, the sub-chapters of a failing chapter included; after a   *)
(* failure nothing more is visited; and run returns only when every        *)
(* chapter was rewritten.                                                  *)
(***************************************************************************)
C10_FailureAbortsRun ==
  /\ \A u, v \in 1..Len(book) :
       u < v => (Position(v) < Position(u) <=> Descendant(u, v))
  /\ \A u \in 1..Len(book) :
       /\ (Position(u) >= idx \/ book[u].kind # "Chapter") => book[u] = orig[u]
       /\ (Position(u) < idx /\ orig[u].kind = "Chapter") =>
            \E r \in {process_chapter(config, orig[u])} :
              /\ r.tag = "Ok"
              /\ book[u] = [orig[u] EXCEPT !.content = cmark(r.new_events)]
  /\ \A k \in 1..Len(reads) :
       /\ Position(reads[k].unit) <= idx
       /\ k > 1 => Position(reads[k - 1].unit) <= Position(reads[k].unit)
  /\ status = "panicked" => idx <= Len(book) \/ ~ConfigValid
  /\ status = "returned" =>
       /\ idx = Len(book) + 1
       /\ \A u \in 1..Len(book) :
            orig[u].kind = "Chapter" =>
              \E r \in {process_chapter(config, orig[u])} :
                /\ r.tag = "Ok"
                /\ book[u].content.events = r.new_events

\* a chapter fails after its sub-chapter, which comes after it in the book,
\* was rewritten; the item after both is not visited
C10_Witness ==
  /\ Failed
  /\ Len(book) = 3
  /\ Item = 1
  /\ Descendant(1, 2)
  /\ Expanded(2) # {}
  /\ book[2] # orig[2]
  /\ Expanded(3) # {}
  /\ book[3] = orig[3]

====
